---- MODULE Spec2Model ----
(***************************************************************************)
(* Client-IP resolution of meu-ip (src/getClientIp.ts): the address        *)
(* validator isIp with its two regular expressions, the x-forwarded-for    *)
(* decomposer getClientIpFromXForwardedFor, and the header precedence      *)
(* chain getClientIp, called by the fetch handler of the server.           *)
(*                                                                         *)
(* A JavaScript string is a sequence of one-character strings.  A          *)
(* JavaScript value is a record [t |-> its typeof class, s |-> the string  *)
(* ToString gives for it].                                                 *)
(***************************************************************************)
EXTENDS Integers, Sequences, FiniteSets, TLC

VARIABLES pc, req, arg, ret

vars == <<pc, req, arg, ret>>

----------------------------------------------------------------------------
(* Characters *)

Digit == {"0", "1", "2", "3", "4", "5", "6", "7", "8", "9"}

LowerLetters ==
  <<"a", "b", "c", "d", "e", "f", "g", "h", "i", "j", "k", "l", "m",
    "n", "o", "p", "q", "r", "s", "t", "u", "v", "w", "x", "y", "z">>

UpperLetters ==
  <<"A", "B", "C", "D", "E", "F", "G", "H", "I", "J", "K", "L", "M",
    "N", "O", "P", "Q", "R", "S", "T", "U", "V", "W", "X", "Y", "Z">>

Range(f) == {f[k] : k \in DOMAIN f}

\* \w of a regular expression without the u flag
WordChar == Digit \cup Range(LowerLetters) \cup Range(UpperLetters) \cup {"_"}

\* the characters "." of a regular expression does not match
LineTerminator == {"\n", "\r"}

\* the characters String.prototype.trim removes (those the inputs can hold)
WhiteSpace == {" ", "\t", "\n", "\r"}

\* Canonicalize of the i flag: the upper-case form of a character
Canonicalize(c) ==
  IF \E k \in DOMAIN LowerLetters : LowerLetters[k] = c
    THEN UpperLetters[CHOOSE k \in DOMAIN LowerLetters : LowerLetters[k] = c]
    ELSE c

\* the character at position i of s, "" outside the string
At(s, i) == IF i >= 1 /\ i <= Len(s) THEN s[i] ELSE ""

\* \b at position i (between s[i-1] and s[i])
WordBoundary(s, i) == (At(s, i - 1) \in WordChar) # (At(s, i) \in WordChar)

\* the positions after one literal character c read at a position of P
Lit(s, P, c) == {p + 1 : p \in {q \in P : At(s, q) = c}}

----------------------------------------------------------------------------
(* regexes.ipv4: a matcher returns the set of positions a match can end at *)

\* a variant whose two-digit octets may start with 0: (?:\d|\d\d|...)
Ipv4OctetLeadingZero(s, i) ==
  (IF At(s, i) \in Digit THEN {i + 1} ELSE {})
  \cup (IF At(s, i) \in Digit /\ At(s, i + 1) \in Digit THEN {i + 2} ELSE {})
  \cup (IF At(s, i) = "1" /\ At(s, i + 1) \in Digit /\ At(s, i + 2) \in Digit
          THEN {i + 3} ELSE {})
  \cup (IF At(s, i) = "2" /\ At(s, i + 1) \in {"0", "1", "2", "3", "4"}
             /\ At(s, i + 2) \in Digit
          THEN {i + 3} ELSE {})
  \cup (IF At(s, i) = "2" /\ At(s, i + 1) = "5"
             /\ At(s, i + 2) \in {"0", "1", "2", "3", "4", "5"}
          THEN {i + 3} ELSE {})

\* (?:\d|[1-9]\d|1\d{2}|2[0-4]\d|25[0-5]) read at position i
Ipv4Octet(s, i) ==
  (IF At(s, i) \in Digit THEN {i + 1} ELSE {})
  \cup (IF At(s, i) \in Digit \ {"0"} /\ At(s, i + 1) \in Digit
          THEN {i + 2} ELSE {})
  \cup (IF At(s, i) = "1" /\ At(s, i + 1) \in Digit /\ At(s, i + 2) \in Digit
          THEN {i + 3} ELSE {})
  \cup (IF At(s, i) = "2" /\ At(s, i + 1) \in {"0", "1", "2", "3", "4"}
             /\ At(s, i + 2) \in Digit
          THEN {i + 3} ELSE {})
  \cup (IF At(s, i) = "2" /\ At(s, i + 1) = "5"
             /\ At(s, i + 2) \in {"0", "1", "2", "3", "4", "5"}
          THEN {i + 3} ELSE {})

\* (?:octet\.){n} read at a position of P
RECURSIVE Ipv4OctetDots(_, _, _)
Ipv4OctetDots(s, P, n) ==
  IF n = 0 THEN P
  ELSE Ipv4OctetDots(s, Lit(s, UNION {Ipv4Octet(s, p) : p \in P}, "."), n - 1)

\* regexes.ipv4.test(s): ^(?:octet\.){3}octet$
ipv4Test(s) ==
  Len(s) + 1 \in UNION {Ipv4Octet(s, p) : p \in Ipv4OctetDots(s, {1}, 3)}

----------------------------------------------------------------------------
(* regexes.ipv6, flag i.  Capture groups 2 and 3 are read back by \2 and   *)
(* \3, so a match in progress is <<position, group 2, group 3>>; a group   *)
(* that did not take part reads back as the empty string.                  *)

\* [\dA-F] without the i flag
HexCharCaseSensitive(c) == c \in Digit \cup {"A", "B", "C", "D", "E", "F"}

\* [\dA-F] under the i flag
HexChar(c) == Canonicalize(c) \in Digit \cup {"A", "B", "C", "D", "E", "F"}

\* [\dA-F]{1,4} read at position i
HexRun(s, i) ==
  {i + k : k \in {n \in 1..4 : \A m \in 0..(n - 1) : HexChar(At(s, i + m))}}

\* a backreference to the text t matches at position i (compared under i)
BackRef(s, i, t) ==
  /\ i + Len(t) <= Len(s) + 1
  /\ \A k \in 1..Len(t) : Canonicalize(s[i + k - 1]) = Canonicalize(t[k])

DoubleColonAt(s, i) == At(s, i) = ":" /\ At(s, i + 1) = ":"

NoLineTerminatorBefore(s, i) == \A k \in 1..(i - 1) : s[k] \notin LineTerminator

\* (?=.*::) at the start of the string
HasCompression(s) ==
  \E i \in 1..Len(s) : DoubleColonAt(s, i) /\ NoLineTerminatorBefore(s, i)

\* the body of (?!.*::.+::) at the start of the string
HasTwoCompressions(s) ==
  \E i \in 1..Len(s) : \E j \in (i + 3)..Len(s) :
    DoubleColonAt(s, i) /\ DoubleColonAt(s, j) /\ NoLineTerminatorBefore(s, j)

\* [\dA-F]{1,4}:(:|\b) read at position i
Ipv6Head(s, i) ==
  UNION {(IF At(s, q) = ":" THEN {q + 1} ELSE {})
         \cup (IF WordBoundary(s, q) THEN {q} ELSE {})
         : q \in Lit(s, HexRun(s, i), ":")}

\* ([\dA-F]{1,4}:(:|\b)|){n} read from the matches of M: each round
\* reads a head, which group 3 then holds, or nothing
RECURSIVE Ipv6Heads(_, _, _)
Ipv6Heads(s, M, n) ==
  IF n = 0 THEN M
  ELSE Ipv6Heads(s,
         UNION {{<<m[1], m[2], <<>>>>}
                \cup {<<e, m[2], SubSeq(s, m[1], e - 1)>> : e \in Ipv6Head(s, m[1])}
                : m \in M},
         n - 1)

\* ([\dA-F]{1,4}:){n} read at a position of P
RECURSIVE Ipv6Full(_, _, _)
Ipv6Full(s, P, n) ==
  IF n = 0 THEN P
  ELSE Ipv6Full(s, Lit(s, UNION {HexRun(s, p) : p \in P}, ":"), n - 1)

\* the first group of the expression: the matches after
\* (?=.*::)(?!.*::.+::)(::)?(head|){5} or ([\dA-F]{1,4}:){6}
Ipv6Front(s) ==
  (IF HasCompression(s) /\ ~HasTwoCompressions(s)
     THEN Ipv6Heads(s,
            {<<1, <<>>, <<>>>>}
            \cup (IF DoubleColonAt(s, 1) THEN {<<3, <<":", ":">>, <<>>>>} ELSE {}),
            5)
     ELSE {})
  \cup {<<p, <<>>, <<>>>> : p \in Ipv6Full(s, {1}, 6)}

\* [\dA-F]{1,4}((?!\3)::|:\b|$) read at position i with group 3 = g3
Ipv6Last(s, i, g3) ==
  UNION {(IF ~BackRef(s, q, g3) /\ DoubleColonAt(s, q) THEN {q + 2} ELSE {})
         \cup (IF At(s, q) = ":" /\ WordBoundary(s, q + 1) THEN {q + 1} ELSE {})
         \cup (IF q = Len(s) + 1 THEN {q} ELSE {})
         : q \in HexRun(s, i)}

\* ((last)|(?!\2\3)){n} read at a position of P
RECURSIVE Ipv6Lasts(_, _, _, _, _)
Ipv6Lasts(s, P, g2, g3, n) ==
  IF n = 0 THEN P
  ELSE Ipv6Lasts(s,
         UNION {Ipv6Last(s, p, g3)
                \cup (IF ~BackRef(s, p, g2 \o g3) THEN {p} ELSE {})
                : p \in P},
         g2, g3, n - 1)

\* ((2[0-4]|1\d|[1-9])?\d|25[0-5]) read at position i
Ipv6Octet(s, i) ==
  {q + 1 : q \in {r \in
          {i}
          \cup (IF At(s, i) = "2" /\ At(s, i + 1) \in {"0", "1", "2", "3", "4"}
                  THEN {i + 2} ELSE {})
          \cup (IF At(s, i) = "1" /\ At(s, i + 1) \in Digit THEN {i + 2} ELSE {})
          \cup (IF At(s, i) \in Digit \ {"0"} THEN {i + 1} ELSE {})
          : At(s, r) \in Digit}}
  \cup (IF At(s, i) = "2" /\ At(s, i + 1) = "5"
             /\ At(s, i + 2) \in {"0", "1", "2", "3", "4", "5"}
          THEN {i + 3} ELSE {})

\* (octet\.?\b){n} read at a position of P
RECURSIVE Ipv6Tail(_, _, _)
Ipv6Tail(s, P, n) ==
  IF n = 0 THEN P
  ELSE Ipv6Tail(s,
         {f \in UNION {{e} \cup Lit(s, {e}, ".")
                       : e \in UNION {Ipv6Octet(s, p) : p \in P}}
          : WordBoundary(s, f)},
         n - 1)

\* regexes.ipv6.test(s)
ipv6Test(s) ==
  \E m \in Ipv6Front(s) :
    Len(s) + 1 \in Ipv6Lasts(s, {m[1]}, m[2], m[3], 2) \cup Ipv6Tail(s, {m[1]}, 4)

----------------------------------------------------------------------------
(* JavaScript values *)

Str(s) == [t |-> "string", s |-> s]

Null == [t |-> "null", s |-> <<"n", "u", "l", "l">>]

Undefined == [t |-> "undefined", s |-> <<"u", "n", "d", "e", "f", "i", "n", "e", "d">>]

True == [t |-> "boolean", s |-> <<"t", "r", "u", "e">>]

False == [t |-> "boolean", s |-> <<"f", "a", "l", "s", "e">>]

Num(digits) == [t |-> "number", s |-> digits]

NaN == [t |-> "number", s |-> <<"N", "a", "N">>]

Obj == [t |-> "object",
        s |-> <<"[", "o", "b", "j", "e", "c", "t", " ", "O", "b", "j", "e", "c", "t", "]">>]

Bool(b) == IF b THEN True ELSE False

\* ToBoolean: what "if (v)", "!v" and "v && ..." test
Truthy(v) ==
  CASE v.t = "undefined" -> FALSE
    [] v.t = "null" -> FALSE
    [] v.t = "boolean" -> v = True
    [] v.t = "number" -> v \notin {Num(<<"0">>), NaN}
    [] v.t = "string" -> v.s # <<>>
    [] OTHER -> TRUE

\* the typeof operator
Typeof(v) == IF v.t = "null" THEN "object" ELSE v.t

\* a completed call: the value returned, or the error thrown
Return(v) == [threw |-> FALSE, value |-> v]

Throw(name) == [threw |-> TRUE, value |-> Str(name)]

TypeError == <<"T", "y", "p", "e", "E", "r", "r", "o", "r">>

----------------------------------------------------------------------------
(* isIp *)

\* value && (regexes.ipv4.test(value) || regexes.ipv6.test(value)):
\* a falsy value is returned as it is; test() reads its argument as a string
isIp(value) ==
  IF ~Truthy(value) THEN value
  ELSE Bool(ipv4Test(value.s) \/ ipv6Test(value.s))

----------------------------------------------------------------------------
(* getClientIpFromXForwardedFor *)

\* s.includes(c)
Includes(s, c) == \E k \in 1..Len(s) : s[k] = c

\* s.split(c) for a one-character separator
RECURSIVE Split(_, _)
Split(s, c) ==
  IF ~Includes(s, c) THEN <<s>>
  ELSE LET k == CHOOSE i \in 1..Len(s) : s[i] = c /\ \A j \in 1..(i - 1) : s[j] # c
       IN <<SubSeq(s, 1, k - 1)>> \o Split(SubSeq(s, k + 1, Len(s)), c)

\* s.trim()
RECURSIVE Trim(_)
Trim(s) ==
  IF s = <<>> THEN s
  ELSE IF Head(s) \in WhiteSpace THEN Trim(Tail(s))
  ELSE IF s[Len(s)] \in WhiteSpace THEN Trim(SubSeq(s, 1, Len(s) - 1))
  ELSE s

\* a variant that cuts every entry at its first colon
CutAtFirstColon(e) ==
  LET ip == Trim(e)
  IN IF Includes(ip, ":") THEN Split(ip, ":")[1] ELSE ip

\* the callback of value.split(",").map: one entry of the header, trimmed,
\* and cut before its colon when it has exactly one
CleanEntry(e) ==
  LET ip == Trim(e)
      splitted == Split(ip, ":")
  IN IF Includes(ip, ":") /\ Len(splitted) = 2 THEN splitted[1] ELSE ip

\* value.split(",").map(...)
ForwardedIps(s) ==
  LET entries == Split(s, ",")
  IN [k \in DOMAIN entries |-> CleanEntry(entries[k])]

\* a variant of the loop that reads the entries from the right
RECURSIVE RightMostIp(_, _)
RightMostIp(forwardedIps, i) ==
  IF i > Len(forwardedIps) THEN Null
  ELSE IF Truthy(isIp(Str(forwardedIps[Len(forwardedIps) + 1 - i])))
    THEN Str(forwardedIps[Len(forwardedIps) + 1 - i])
  ELSE RightMostIp(forwardedIps, i + 1)

\* the for loop from index i: the first entry isIp accepts, or null
RECURSIVE FirstIp(_, _)
FirstIp(forwardedIps, i) ==
  IF i > Len(forwardedIps) THEN Null
  ELSE IF Truthy(isIp(Str(forwardedIps[i]))) THEN Str(forwardedIps[i])
  ELSE FirstIp(forwardedIps, i + 1)

\* a variant that tests the type before it tests for an absent value
TypeTestedFirst(value) ==
  IF Typeof(value) # "string" THEN Throw(TypeError)
  ELSE IF ~Truthy(value) THEN Return(Null)
  ELSE Return(FirstIp(ForwardedIps(value.s), 1))

getClientIpFromXForwardedFor(value) ==
  IF ~Truthy(value) THEN Return(Null)
  ELSE IF Typeof(value) # "string" THEN Throw(TypeError)
  ELSE Return(FirstIp(ForwardedIps(value.s), 1))

----------------------------------------------------------------------------
(* getClientIp *)

\* the header names getClientIp reads, as a Headers object keys them
HeaderNames ==
  {"x-client-ip", "x-forwarded-for", "cf-connecting-ip", "do-connecting-ip",
   "fastly-client-ip", "true-client-ip", "x-real-ip", "x-cluster-client-ip",
   "x-forwarded", "forwarded-for", "forwarded", "x-appengine-user-ip",
   "cf-pseudo-ipv4"}

\* req.headers.get(name): names are matched without regard to case, and a
\* header the request does not carry reads as null
Get(headers, name) ==
  headers.map[IF name = "Cf-Pseudo-IPv4" THEN "cf-pseudo-ipv4" ELSE name]

\* a variant without the Cloudflare fallback
PseudoIpv4Skipped(req_) == Return(Null)

\* the second "if (req.headers)" block and the final return
PseudoIpv4(req_) ==
  IF req_.headers.present /\ Truthy(isIp(Get(req_.headers, "Cf-Pseudo-IPv4")))
    THEN Return(Get(req_.headers, "Cf-Pseudo-IPv4"))
    ELSE Return(Null)

\* the first "if (req.headers)" block from the cf-connecting-ip check on
AfterXForwardedFor(req_) ==
  LET h == req_.headers
      ok(name) == Truthy(isIp(Get(h, name)))
  IN IF ok("cf-connecting-ip") THEN Return(Get(h, "cf-connecting-ip"))
     ELSE IF ok("do-connecting-ip") THEN Return(Get(h, "do-connecting-ip"))
     ELSE IF ok("fastly-client-ip") THEN Return(Get(h, "fastly-client-ip"))
     ELSE IF ok("true-client-ip") THEN Return(Get(h, "true-client-ip"))
     ELSE IF ok("x-real-ip") THEN Return(Get(h, "x-real-ip"))
     ELSE IF ok("x-cluster-client-ip") THEN Return(Get(h, "x-cluster-client-ip"))
     ELSE IF ok("x-forwarded") THEN Return(Get(h, "x-forwarded"))
     ELSE IF ok("forwarded-for") THEN Return(Get(h, "forwarded-for"))
     ELSE IF ok("forwarded") THEN Return(Get(h, "forwarded"))
     ELSE IF ok("x-appengine-user-ip") THEN Return(Get(h, "x-appengine-user-ip"))
     ELSE PseudoIpv4(req_)

\* a variant that returns the x-forwarded-for header as it was received
RawXForwardedFor(req_) ==
  IF ~req_.headers.present THEN PseudoIpv4(req_)
  ELSE IF Truthy(isIp(Get(req_.headers, "x-client-ip")))
    THEN Return(Get(req_.headers, "x-client-ip"))
  ELSE LET xForwardedFor ==
             getClientIpFromXForwardedFor(Get(req_.headers, "x-forwarded-for"))
       IN IF xForwardedFor.threw THEN xForwardedFor
          ELSE IF Truthy(isIp(xForwardedFor.value))
            THEN Return(Get(req_.headers, "x-forwarded-for"))
          ELSE AfterXForwardedFor(req_)

\* a variant that reads x-forwarded-for before x-client-ip
XForwardedForFirst(req_) ==
  IF ~req_.headers.present THEN PseudoIpv4(req_)
  ELSE LET xForwardedFor ==
             getClientIpFromXForwardedFor(Get(req_.headers, "x-forwarded-for"))
       IN IF xForwardedFor.threw THEN xForwardedFor
          ELSE IF Truthy(isIp(xForwardedFor.value)) THEN xForwardedFor
          ELSE IF Truthy(isIp(Get(req_.headers, "x-client-ip")))
            THEN Return(Get(req_.headers, "x-client-ip"))
          ELSE AfterXForwardedFor(req_)

getClientIp(req_) ==
  IF ~req_.headers.present THEN PseudoIpv4(req_)
  ELSE IF Truthy(isIp(Get(req_.headers, "x-client-ip")))
    THEN Return(Get(req_.headers, "x-client-ip"))
  ELSE LET xForwardedFor ==
             getClientIpFromXForwardedFor(Get(req_.headers, "x-forwarded-for"))
       IN IF xForwardedFor.threw THEN xForwardedFor
          ELSE IF Truthy(isIp(xForwardedFor.value)) THEN xForwardedFor
          ELSE AfterXForwardedFor(req_)

----------------------------------------------------------------------------
(* Header values and forwarded-for values of the requests *)

Ip9 == <<"9", ".", "9", ".", "9", ".", "9">>

Ip1 == <<"1", ".", "1", ".", "1", ".", "1">>

Loopback6 == <<":", ":", "1">>

Unknown == <<"u", "n", "k", "n", "o", "w", "n">>

Ip9Port == <<"9", ".", "9", ".", "9", ".", "9", ":", "8", "0">>

UnknownThenIp9 ==
  <<"u", "n", "k", "n", "o", "w", "n", ",", " ", "9", ".", "9", ".", "9",
    ".", "9">>

Ip1PortThenIp9 ==
  <<"1", ".", "1", ".", "1", ".", "1", ":", "8", "0", ",", " ", "9", ".",
    "9", ".", "9", ".", "9">>

Ex203 == <<"2", "0", "3", ".", "0", ".", "1", "1", "3", ".", "5">>

Ex70 == <<"7", "0", ".", "4", "1", ".", "3", ".", "1", "8">>

ExChain ==
  <<"2", "0", "3", ".", "0", ".", "1", "1", "3", ".", "5", ",", " ", "7",
    "0", ".", "4", "1", ".", "3", ".", "1", "8", ",", " ", "1", "5", "0",
    ".", "1", "7", "2", ".", "2", "3", "8", ".", "1", "7", "8">>

ExUnknown ==
  <<"u", "n", "k", "n", "o", "w", "n", ",", " ", "7", "0", ".", "4", "1",
    ".", "3", ".", "1", "8">>

ExPort ==
  <<"2", "0", "3", ".", "0", ".", "1", "1", "3", ".", "5", ":", "4", "7",
    "1", "1", ",", " ", "7", "0", ".", "4", "1", ".", "3", ".", "1", "8">>

\* the values a header other than x-forwarded-for is given when present
PlainValues == {Str(Ip9), Str(Loopback6), Str(Ip9Port), Str(<<>>)}

\* the values x-forwarded-for is given when present: strings, and the
\* values that are not strings a caller's header source can hand over
XffValues ==
  PlainValues
  \cup {Str(Ip1), Str(Unknown), Str(UnknownThenIp9), Str(Ip1PortThenIp9)}
  \cup {Num(<<"0">>), Num(<<"5">>), False, True, Obj}

\* at most this many headers are present in a request
MaxPresent == 2

PresentSets == {S \in SUBSET HeaderNames : Cardinality(S) <= MaxPresent}

\* the header map where the headers of S are present: f gives the values
\* of the headers other than x-forwarded-for, x that of x-forwarded-for
HeaderMap(S, f, x) ==
  [n \in HeaderNames |->
     IF n \notin S THEN Null
     ELSE IF n = "x-forwarded-for" THEN x
     ELSE f[n]]

WithHeaders(m) == [headers |-> [present |-> TRUE, map |-> m]]

\* a request without a header source
NoHeaders == [headers |-> [present |-> FALSE, map |-> [n \in HeaderNames |-> Null]]]

----------------------------------------------------------------------------
(* The server: one request, answered by the fetch handler *)

Init ==
  /\ pc = "fetch"
  /\ \/ req = NoHeaders
     \/ \E S \in PresentSets :
          \E f \in [S \ {"x-forwarded-for"} -> PlainValues] :
            \E x \in (IF "x-forwarded-for" \in S THEN XffValues ELSE {Null}) :
              req = WithHeaders(HeaderMap(S, f, x))
  /\ arg = Undefined
  /\ ret = Return(Undefined)

\* fetch(req): Response.json({ ip: getClientIp(req) })
Fetch ==
  /\ pc = "fetch"
  /\ ret' = getClientIp(req)
  /\ pc' = IF ret'.threw THEN "thrown" ELSE "responded"
  /\ UNCHANGED <<req, arg>>

Next == Fetch

Spec == Init /\ [][Next]_vars

----------------------------------------------------------------------------
(* Resolution: what the claims about getClientIp speak of *)

\* the fixed order of the headers
Order ==
  <<"x-client-ip", "x-forwarded-for", "cf-connecting-ip", "do-connecting-ip",
    "fastly-client-ip", "true-client-ip", "x-real-ip", "x-cluster-client-ip",
    "x-forwarded", "forwarded-for", "forwarded", "x-appengine-user-ip",
    "cf-pseudo-ipv4">>

Prioritized == {k \in DOMAIN Order : Order[k] # "cf-pseudo-ipv4"}

\* the address header k of the order holds: the header's value, or for
\* x-forwarded-for the entry the decomposer picks
Address(r, k) ==
  IF Order[k] = "x-forwarded-for"
    THEN getClientIpFromXForwardedFor(Get(r.headers, Order[k])).value
    ELSE Get(r.headers, Order[k])

\* header k of the order succeeds
Succeeds(r, k) ==
  /\ r.headers.present
  /\ Order[k] = "x-forwarded-for"
       => ~getClientIpFromXForwardedFor(Get(r.headers, Order[k])).threw
  /\ Truthy(isIp(Address(r, k)))

\* every header is a string or absent, as a header source gives them
StringHeaders(r) == \A n \in HeaderNames : r.headers.map[n].t \in {"string", "null"}

PriorityOrder ==
  (pc # "fetch" /\ StringHeaders(req)) =>
    \A k \in DOMAIN Order :
      (Succeeds(req, k) /\ \A j \in 1..(k - 1) : ~Succeeds(req, j))
        => ret = Return(Address(req, k))

\* C2 witness: x-client-ip "9.9.9.9" with x-forwarded-for "1.1.1.1" is
\* answered "9.9.9.9"
PriorityOrderWitness ==
  /\ pc = "responded"
  /\ req.headers.map["x-client-ip"] = Str(Ip9)
  /\ req.headers.map["x-forwarded-for"] = Str(Ip1)
  /\ ret = Return(Str(Ip9))

\* C6: cf-pseudo-ipv4 is the last step: it is the answer when a header
\* source exists, none of the 12 prioritized headers succeeds and isIp
\* accepts it; while a prioritized header succeeds the answer is the address
\* of a prioritized header; without a header source the answer is null
PseudoIpv4Last ==
  (pc # "fetch" /\ StringHeaders(req)) =>
    /\ ~req.headers.present => ret = Return(Null)
    /\ (/\ req.headers.present
        /\ \A k \in Prioritized : ~Succeeds(req, k)
        /\ Truthy(isIp(Get(req.headers, "cf-pseudo-ipv4"))))
         => ret = Return(Get(req.headers, "cf-pseudo-ipv4"))
    /\ (\E k \in Prioritized : Succeeds(req, k))
         => \E k \in Prioritized : Succeeds(req, k) /\ ret = Return(Address(req, k))

\* C6 witness: cf-pseudo-ipv4 "9.9.9.9" answers a request whose x-real-ip
\* is "9.9.9.9:80", which isIp rejects
PseudoIpv4LastWitness ==
  /\ pc = "responded"
  /\ req.headers.map["x-real-ip"] = Str(Ip9Port)
  /\ req.headers.map["cf-pseudo-ipv4"] = Str(Ip9)
  /\ ret = Return(Str(Ip9))

----------------------------------------------------------------------------
(* The decomposer called on its own *)

\* the concatenation of a sequence of strings
RECURSIVE Concat(_)
Concat(ss) == IF ss = <<>> THEN <<>> ELSE Head(ss) \o Concat(Tail(ss))

\* the pieces a forwarded-for value is put together from
Pieces == {Ip9, Loopback6, Unknown, <<",">>, <<" ">>, <<":", "8", "0">>, <<":">>}

\* at most this many pieces make a forwarded-for value
MaxPieces == 4

\* the values that are not strings
NonStrings == {Undefined, Null, Num(<<"0">>), Num(<<"5">>), NaN, False, True, Obj}

InitXff ==
  /\ pc = "call"
  /\ req = NoHeaders
  /\ \/ arg \in NonStrings
     \/ arg \in {Str(ExChain), Str(ExUnknown), Str(ExPort)}
     \/ \E n \in 0..MaxPieces : \E f \in [1..n -> Pieces] : arg = Str(Concat(f))
  /\ ret = Return(Undefined)

\* getClientIpFromXForwardedFor(arg)
CallXff ==
  /\ pc = "call"
  /\ ret' = getClientIpFromXForwardedFor(arg)
  /\ pc' = IF ret'.threw THEN "thrown" ELSE "returned"
  /\ UNCHANGED <<req, arg>>

NextXff == CallXff

SpecXff == InitXff /\ [][NextXff]_vars

\* the entries of a forwarded-for value isIp accepts, by index
Accepted(ips) == {k \in DOMAIN ips : Truthy(isIp(Str(ips[k])))}

Colons(s) == {i \in 1..Len(s) : s[i] = ":"}

\* what the claim says an entry is cleaned to: trimmed, and with exactly
\* one colon cut before it
Cleaned(e) ==
  LET ip == Trim(e)
  IN IF Cardinality(Colons(ip)) = 1
       THEN SubSeq(ip, 1, (CHOOSE i \in Colons(ip) : TRUE) - 1)
       ELSE ip

\* C4: each comma-separated entry is trimmed and, when it has exactly one
\* colon, cut before the colon; with no colon or several it is kept whole;
\* so a value of one entry gives that cleaned entry when isIp accepts it
PortStripped ==
  (pc # "call" /\ arg.t = "string" /\ arg.s # <<>>) =>
    LET entries == Split(arg.s, ",")
        ips == ForwardedIps(arg.s)
    IN /\ Len(ips) = Len(entries)
       /\ \A k \in DOMAIN entries : ips[k] = Cleaned(entries[k])
       /\ Len(entries) = 1 =>
            ret.value = IF Truthy(isIp(Str(Cleaned(arg.s))))
                          THEN Str(Cleaned(arg.s)) ELSE Null
       /\ arg = Str(ExPort) => ret.value = Str(Ex203)

\* C4 witness: "203.0.113.5:4711, 70.41.3.18" gives "203.0.113.5"
PortStrippedWitness ==
  pc = "returned" /\ arg = Str(ExPort) /\ ret = Return(Str(Ex203))

\* C5: a value that is present and not a string makes the decomposer throw
\* a TypeError, and an absent value gives null without an error
NonStringThrows ==
  pc # "call" =>
    /\ arg.t \notin {"string", "undefined", "null"} => ret = Throw(TypeError)
    /\ arg.t \in {"undefined", "null"} => ret = Return(Null)

----------------------------------------------------------------------------
(* The validator called on its own: dotted strings *)

\* the strings of ss joined by the string sep
RECURSIVE Join(_, _)
Join(ss, sep) ==
  IF ss = <<>> THEN <<>>
  ELSE IF Len(ss) = 1 THEN ss[1]
  ELSE ss[1] \o sep \o Join(Tail(ss), sep)

\* the segment under test: every string of one to three digits, some of
\* four, and segments that are not numbers
TestSegments ==
  {<<a>> : a \in Digit}
  \cup {<<a, b>> : a \in Digit, b \in Digit}
  \cup {<<a, b, c>> : a \in Digit, b \in Digit, c \in Digit}
  \cup {<<a, b, c, d>> : a \in {"0", "1", "2"}, b \in {"0", "5"},
                         c \in {"0", "5"}, d \in {"0", "5"}}
  \cup {<<>>, <<" ", "1">>, <<"1", " ">>, <<"a">>, <<"1", "a">>, <<"-", "1">>,
        <<"1", "\n">>, <<"1", ".">>}

\* the segments around the one under test, by position
BaseSegments == <<<<"2", "5", "5">>, <<"0">>, <<"1", "0">>, <<"1", "9", "9">>>>

BaseSegment(k) == BaseSegments[((k - 1) % Len(BaseSegments)) + 1]

\* at most this many dot-separated segments
MaxSegments == 5

InitIsIp ==
  /\ pc = "call"
  /\ req = NoHeaders
  /\ \/ arg \in NonStrings
     \/ arg \in {Str(<<>>), Str(Unknown), Str(Ip9), Str(Loopback6), Str(Ip9Port)}
     \/ \E n \in 1..MaxSegments : \E p \in 1..n : \E seg \in TestSegments :
          arg = Str(Join([k \in 1..n |-> IF k = p THEN seg ELSE BaseSegment(k)],
                         <<".">>))
  /\ ret = Return(Undefined)

\* isIp(arg)
CallIsIp ==
  /\ pc = "call"
  /\ ret' = Return(isIp(arg))
  /\ pc' = "returned"
  /\ UNCHANGED <<req, arg>>

NextIsIp == CallIsIp

SpecIsIp == InitIsIp /\ [][NextIsIp]_vars

\* C8: isIp returns the boolean false for undefined, null, "" and "unknown"
FalseForAbsent ==
  (pc # "call" /\ arg \in {Undefined, Null, Str(<<>>), Str(Unknown)})
    => ret = Return(False)

\* the number a string of digits writes
RECURSIVE Decimal(_)
Decimal(ds) ==
  IF ds = <<>> THEN 0
  ELSE 10 * Decimal(SubSeq(ds, 1, Len(ds) - 1))
       + (CHOOSE v \in 0..9 : <<"0", "1", "2", "3", "4", "5", "6", "7", "8", "9">>[v + 1]
                               = ds[Len(ds)])

\* an octet as the claim writes it: one digit, two digits not starting
\* with 0, or three digits in 100..255
IsOctet(g) ==
  /\ Len(g) \in 1..3
  /\ \A k \in 1..Len(g) : g[k] \in Digit
  /\ Len(g) = 2 => g[1] # "0"
  /\ Len(g) = 3 => Decimal(g) \in 100..255

\* the positions of the character c in s
Places(s, c) == {i \in 1..Len(s) : s[i] = c}

\* the k-th smallest number of a set
Nth(P, k) == CHOOSE x \in P : Cardinality({y \in P : y < x}) = k - 1

\* the fields of s that the character c separates, in order
Fields(s, c) ==
  LET P == Places(s, c) \cup {0, Len(s) + 1}
  IN [k \in 1..(Cardinality(P) - 1) |-> SubSeq(s, Nth(P, k) + 1, Nth(P, k + 1) - 1)]

\* four dot-separated octets and nothing else
DottedQuad(s) ==
  LET f == Fields(s, ".")
  IN Len(f) = 4 /\ \A k \in 1..4 : IsOctet(f[k])

\* C9: the IPv4 expression accepts a string exactly when the whole string
\* is four dot-separated octets, and isIp returns true for those strings
\* and for no other string without a colon
Ipv4Exact ==
  (pc # "call" /\ arg.t = "string") =>
    /\ ipv4Test(arg.s) <=> DottedQuad(arg.s)
    /\ DottedQuad(arg.s) => ret = Return(True)
    /\ (~DottedQuad(arg.s) /\ ~Includes(arg.s, ":")) => ret.value # True

\* C9 witness: "255.0.10.249", with octets of one, two and three digits,
\* is accepted
Ipv4ExactWitness ==
  /\ pc = "returned"
  /\ arg = Str(<<"2", "5", "5", ".", "0", ".", "1", "0", ".", "2", "4", "9">>)
  /\ ret = Return(True)

----------------------------------------------------------------------------
(* The validator called on its own: colon-separated strings *)

\* the texts the groups of a string cycle through
GroupStyles ==
  <<<<<<"1">>>>,
    <<<<"a", "B">>, <<"F", "0", "0", "d">>, <<"0">>, <<"9", "c", "E", "1">>>>,
    <<<<"1">>, <<"1", "2", "3", "4", "5">>>>>>

\* n groups of a style, joined by colons
Run(n, style) ==
  Join([k \in 1..n |-> GroupStyles[style][((k - 1) % Len(GroupStyles[style])) + 1]],
       <<":">>)

Separators == {<<>>, <<":">>, <<":", ":">>}

Tails ==
  {<<>>,
   <<"2", "5", "5", ".", "0", ".", "1", "0", ".", "1", "9", "9">>,
   <<":", "2", "5", "5", ".", "0", ".", "1", "0", ".", "1", "9", "9">>,
   <<":", "1", ".", "2", ".", "3", ".", "2", "5", "6">>,
   <<":", "1", ".", "2", ".", "3", ".", "0", "4">>}

\* at most this many groups in a string
MaxGroups == 8

InitIpv6 ==
  /\ pc = "call"
  /\ req = NoHeaders
  /\ \E a \in 0..MaxGroups : \E b \in 0..(MaxGroups - a) :
       \E c \in 0..(MaxGroups - a - b) :
         \E s1 \in Separators : \E s2 \in Separators : \E tail \in Tails :
           \E style \in DOMAIN GroupStyles :
             arg = Str(Run(a, style) \o s1 \o Run(b, style) \o s2
                       \o Run(c, style) \o tail)
  /\ ret = Return(Undefined)

SpecIpv6 == InitIpv6 /\ [][NextIsIp]_vars

\* the positions where a "::" starts
Compressions(s) == {i \in 1..(Len(s) - 1) : s[i] = ":" /\ s[i + 1] = ":"}

HexDigits ==
  Digit \cup {"a", "b", "c", "d", "e", "f", "A", "B", "C", "D", "E", "F"}

IsHexGroup(g) == Len(g) \in 1..4 /\ \A k \in 1..Len(g) : g[k] \in HexDigits

\* the colon-separated groups of a side of an address
GroupsOf(x) == IF x = <<>> THEN <<>> ELSE Fields(x, ":")

\* hexadecimal groups, the last of which may be a dotted quad
GroupsOk(gs) ==
  /\ \A k \in 1..(Len(gs) - 1) : IsHexGroup(gs[k])
  /\ Len(gs) > 0 => IsHexGroup(gs[Len(gs)]) \/ DottedQuad(gs[Len(gs)])

\* the 16-bit groups a side stands for: a dotted quad stands for two
Width(gs) == Len(gs) + (IF Len(gs) > 0 /\ DottedQuad(gs[Len(gs)]) THEN 1 ELSE 0)

\* an IPv6 address in full, compressed or dual notation
ValidIpv6(s) ==
  IF Compressions(s) = {}
    THEN GroupsOk(GroupsOf(s)) /\ Width(GroupsOf(s)) = 8
    ELSE /\ Cardinality(Compressions(s)) = 1
         /\ LET i == CHOOSE j \in Compressions(s) : TRUE
                left == GroupsOf(SubSeq(s, 1, i - 1))
                right == GroupsOf(SubSeq(s, i + 2, Len(s)))
            IN /\ \A k \in 1..Len(left) : IsHexGroup(left[k])
               /\ GroupsOk(right)
               /\ Len(left) + Width(right) <= 7

\* C10: isIp returns true for every IPv6 address in full, compressed and
\* dual notation, in either case of the hexadecimal digits, and does not
\* return true for a string with two or more "::"
Ipv6Accepted ==
  (pc # "call" /\ arg.t = "string") =>
    /\ ValidIpv6(arg.s) => ret = Return(True)
    /\ Cardinality(Compressions(arg.s)) >= 2 => ret.value # True

\* C10 witness: the compressed address "aB::aB:F00d" is accepted
Ipv6AcceptedWitness ==
  /\ pc = "returned"
  /\ arg = Str(<<"a", "B", ":", ":", "a", "B", ":", "F", "0", "0", "d">>)
  /\ ValidIpv6(arg.s)
  /\ ret = Return(True)

====
